---- MODULE Spec2Model ----
(***************************************************************************)
(* A model of pyais.py: decoding of NMEA AIVDM sentences into AIS records. *)
(*                                                                         *)
(* Python strings are sequences of character codes (ord).  The bit vector  *)
(* the decoder works on is itself a Python string of the characters '0',   *)
(* '1' (and '-' when str.format meets a negative number), so it is a       *)
(* sequence over the codes 48, 49 and 45.                                  *)
(*                                                                         *)
(* A Python expression that may raise is a record [exc, val]: exc is the   *)
(* name of the exception raised ("" when none), val the value otherwise.   *)
(* Floating-point quotients are kept exact as [num, den].                  *)
(***************************************************************************)
EXTENDS Integers, Sequences, FiniteSets, TLC

VARIABLES
    msg,                \* the argument of the last decode call
    outcome,            \* what that call did: value returned, text printed, exception
    decoded_data,       \* decode's local decoded_data in that call
    NAVIGATION_STATUS,  \* the module-level code tables (Python dicts)
    MANEUVER_INDICATOR,
    EPFD_TYPE,
    SHIP_TYPE,
    calls,              \* the (line, outcome) pairs of a sequence of decode calls
    text_data,          \* ascii6's arguments and result
    text_flag,
    text_result,
    pc                  \* "recv": msg is about to be decoded; "decoded": it was

vars == <<msg, outcome, decoded_data, NAVIGATION_STATUS, MANEUVER_INDICATOR,
          EPFD_TYPE, SHIP_TYPE, calls, text_data, text_flag, text_result, pc>>

tables == <<NAVIGATION_STATUS, MANEUVER_INDICATOR, EPFD_TYPE, SHIP_TYPE>>

-----------------------------------------------------------------------------
(* Python primitives *)

Ok(v) == [exc |-> "", val |-> v]

Raise(e) == [exc |-> e, val |-> 0]

Min(a, b) == IF a < b THEN a ELSE b

\* s[a:b], 0-based, end exclusive, clamped to the string
Slice(s, a, b) == SubSeq(s, a + 1, Min(b, Len(s)))

\* s[a::]
SliceFrom(s, a) == SubSeq(s, a + 1, Len(s))

\* s[i]: IndexError past the end
Index(s, i) == IF i < Len(s) THEN Ok(<<s[i + 1]>>) ELSE Raise("IndexError")

\* the exception of the first expression, in evaluation order, that raises
FirstExc(rs) ==
    IF \E i \in DOMAIN rs : rs[i].exc # ""
    THEN rs[CHOOSE i \in DOMAIN rs :
                /\ rs[i].exc # ""
                /\ \A j \in 1..(i - 1) : rs[j].exc = ""].exc
    ELSE ""

RECURSIVE Bin(_)
\* the binary digits of n >= 0, no leading zeros
Bin(n) == IF n < 2 THEN <<48 + n>> ELSE Bin(n \div 2) \o <<48 + (n % 2)>>

ZeroPad(s, w) == IF Len(s) >= w THEN s ELSE [i \in 1..(w - Len(s)) |-> 48] \o s

\* f'{c:06b}': width 6, zero padded, the sign counted in the width
Format06b(c) ==
    IF c < 0 THEN <<45>> \o ZeroPad(Bin(-c), 5) ELSE ZeroPad(Bin(c), 6)

RECURSIVE BitsValue(_)
\* the number a string of binary digits writes, most significant first
\* (the string is halved at each step, so the nesting stays shallow)
BitsValue(d) ==
    IF d = <<>> THEN 0
    ELSE IF Len(d) = 1 THEN d[1] - 48
    ELSE LET h == Len(d) \div 2
         IN  BitsValue(SubSeq(d, 1, h)) * 2 ^ (Len(d) - h)
                 + BitsValue(SubSeq(d, h + 1, Len(d)))

\* int(s, 2) for a string over '0', '1', '-'
IntBase2(s) ==
    LET neg == s # <<>> /\ s[1] = 45
        d == IF neg THEN Tail(s) ELSE s
    IN  IF d # <<>> /\ \A i \in DOMAIN d : d[i] \in {48, 49}
        THEN Ok(IF neg THEN -BitsValue(d) ELSE BitsValue(d))
        ELSE Raise("ValueError")

HexDigit(c) ==
    IF c \in 48..57 THEN c - 48
    ELSE IF c \in 65..70 THEN c - 55
    ELSE IF c \in 97..102 THEN c - 87
    ELSE -1

RECURSIVE HexValue(_)
HexValue(d) ==
    IF d = <<>> THEN 0
    ELSE 16 * HexValue(SubSeq(d, 1, Len(d) - 1)) + HexDigit(d[Len(d)])

\* int("0x" + s, 16) for a string s of letters and digits
IntHex(s) ==
    IF s # <<>> /\ \A i \in DOMAIN s : HexDigit(s[i]) >= 0
    THEN Ok(HexValue(s))
    ELSE Raise("ValueError")

RECURSIVE Xor(_, _)
\* a ^ b on naturals
Xor(a, b) ==
    IF a = 0 THEN b
    ELSE IF b = 0 THEN a
    ELSE 2 * Xor(a \div 2, b \div 2) + ((a + b) % 2)

\* msg.split(','): the substrings between consecutive commas
Split(s) ==
    LET commas == {i \in DOMAIN s : s[i] = 44}
        n == Cardinality(commas)
        \* the position of the k-th comma; 0 and Len(s) + 1 close the ends
        at(k) == IF k = 0 THEN 0
                 ELSE IF k = n + 1 THEN Len(s) + 1
                 ELSE CHOOSE i \in commas :
                          Cardinality({j \in commas : j < i}) = k - 1
    IN  [k \in 1..(n + 1) |-> SubSeq(s, at(k - 1) + 1, at(k) - 1)]

-----------------------------------------------------------------------------
(* The code tables as the module creates them *)

UNDEFINED == "Undefined"

RESERVED == "Reserved"

NavigationStatusInit ==
    0 :> "Under way using engine" @@
    1 :> "At anchor" @@
    2 :> "Not under command" @@
    3 :> "Restricted manoeuverability" @@
    4 :> "Constrained by her draught" @@
    5 :> "Moored" @@
    6 :> "Aground" @@
    7 :> "Engaged in Fishing" @@
    8 :> "Under way sailing" @@
    9 :> "Reserved" @@
    10 :> "Reserved" @@
    11 :> "Reserved" @@
    12 :> "Reserved" @@
    13 :> "Reserved" @@
    14 :> "AIS-SART is active" @@
    15 :> "Undefined"

ManeuverIndicatorInit ==
    0 :> "Not available" @@
    1 :> "No special maneuver" @@
    2 :> "Special maneuver"

EpfdTypeInit ==
    0 :> "Undefined" @@
    1 :> "GPS" @@
    2 :> "GLONASS" @@
    3 :> "GPS/GLONASS" @@
    4 :> "Loran-C" @@
    5 :> "Chayka" @@
    6 :> "Integrated navigation system" @@
    7 :> "Surveyed" @@
    8 :> "Galileo"

ShipTypeInit ==
    0 :> "Not available" @@
    20 :> "Wing in ground (WIG)" @@
    21 :> "Wing in ground (WIG), Hazardous category A" @@
    22 :> "Wing in ground (WIG), Hazardous category B" @@
    23 :> "Wing in ground (WIG), Hazardous category C" @@
    24 :> "Wing in ground (WIG), Hazardous category D" @@
    25 :> "WIG Reserved" @@
    26 :> "WIG Reserved" @@
    27 :> "WIG Reserved" @@
    28 :> "WIG Reserved" @@
    29 :> "WIG Reserved" @@
    30 :> "Fishing" @@
    31 :> "Towing" @@
    32 :> "Towing,length exceeds 200m or breadth exceeds 25m" @@
    33 :> "Dredging or underwater ops" @@
    34 :> "Diving ops" @@
    35 :> "Military ops" @@
    36 :> "Sailing" @@
    37 :> "Pleasure Craft" @@
    38 :> "Reserved" @@
    39 :> "Reserved" @@
    40 :> "High speed craft (HSC)" @@
    41 :> "High speed craft (HSC), Hazardous category A" @@
    42 :> "High speed craft (HSC), Hazardous category B" @@
    43 :> "High speed craft (HSC), Hazardous category C" @@
    44 :> "High speed craft (HSC), Hazardous category D" @@
    45 :> "High speed craft (HSC), Reserved" @@
    46 :> "High speed craft (HSC), Reserved" @@
    47 :> "High speed craft (HSC), Reserved" @@
    48 :> "High speed craft (HSC), Reserved" @@
    49 :> "High speed craft (HSC), No additional information" @@
    50 :> "Pilot Vessel" @@
    51 :> "Search and Rescue vessel" @@
    52 :> "Tug" @@
    53 :> "Port Tender" @@
    54 :> "Anti-pollution equipment" @@
    55 :> "Law Enforcement" @@
    56 :> "Spare - Local Vessel" @@
    57 :> "Spare - Local Vessel" @@
    58 :> "Medical Transport" @@
    59 :> "Noncombatant ship according to RR Resolution No. 18" @@
    60 :> "Passenger" @@
    61 :> "Passenger, Hazardous category A" @@
    62 :> "Passenger, Hazardous category B" @@
    63 :> "Passenger, Hazardous category C" @@
    64 :> "Passenger, Hazardous category D" @@
    65 :> "Passenger, Reserved" @@
    66 :> "Passenger, Reserved" @@
    67 :> "Passenger, Reserved" @@
    68 :> "Passenger, Reserved" @@
    69 :> "Passenger, No additional information" @@
    70 :> "Cargo" @@
    71 :> "Cargo, Hazardous category A" @@
    72 :> "Cargo, Hazardous category B" @@
    73 :> "Cargo, Hazardous category C" @@
    74 :> "Cargo, Hazardous category D" @@
    75 :> "Cargo, Reserved" @@
    76 :> "Cargo, Reserved" @@
    77 :> "Cargo, Reserved" @@
    78 :> "Cargo, Reserved" @@
    79 :> "Cargo, No additional information" @@
    80 :> "Tanker" @@
    81 :> "Tanker, Hazardous category A" @@
    82 :> "Tanker, Hazardous category B" @@
    83 :> "Tanker, Hazardous category C" @@
    84 :> "Tanker, Hazardous category D" @@
    85 :> "Tanker, Reserved " @@
    86 :> "Tanker, Reserved " @@
    87 :> "Tanker, Reserved " @@
    88 :> "Tanker, Reserved " @@
    89 :> "Tanker, No additional information" @@
    90 :> "Other Type" @@
    91 :> "Other Type, Hazardous category A" @@
    92 :> "Other Type, Hazardous category B" @@
    93 :> "Other Type, Hazardous category C" @@
    94 :> "Other Type, Hazardous category D" @@
    95 :> "Other Type, Reserved" @@
    96 :> "Other Type, Reserved" @@
    97 :> "Other Type, Reserved" @@
    98 :> "Other Type, Reserved" @@
    99 :> "Other Type, No additional information"

\* d[key]: KeyError when the key is absent
Lookup(d, key) == IF key \in DOMAIN d THEN Ok(d[key]) ELSE Raise("KeyError")

-----------------------------------------------------------------------------
(* Bit-level helpers *)

\* a variant with the threshold 48 for 40
armor_value_48(ch) ==
    LET c == ch - 48
    IN  IF c > 48 THEN c - 8 ELSE c

\* c = ord(c) - 48; if c > 40: c -= 8
armor_value(ch) ==
    LET c == ch - 48
    IN  IF c > 40 THEN c - 8 ELSE c

RECURSIVE decode_ascii6_range(_, _, _)
\* binary_string for the characters lo..hi of data, in input order
decode_ascii6_range(data, lo, hi) ==
    IF lo > hi THEN <<>>
    ELSE IF lo = hi THEN Format06b(armor_value(data[lo]))
    ELSE LET mid == (lo + hi) \div 2
         IN  decode_ascii6_range(data, lo, mid)
                 \o decode_ascii6_range(data, mid + 1, hi)

\* the armored payload expanded into a string of binary digits
decode_ascii6(data) == decode_ascii6_range(data, 1, Len(data))

\* ceil(len(string) / chunk_size) substrings of chunk_size characters
split_str(string, chunk_size) ==
    LET chunks == (Len(string) + chunk_size - 1) \div chunk_size
    IN  [i \in 1..chunks |->
            Slice(string, (i - 1) * chunk_size, i * chunk_size)]

\* a variant that skips a '@' and goes on (continue for return)
ascii6_continue(data, ignore_tailing_fillers) ==
    LET lst == split_str(data, 6)
        n(i) == IntBase2(lst[i])
        c(i) == IF n(i).val < 32 THEN n(i).val + 64 ELSE n(i).val
        raises(i) == n(i).exc # "" \/ c(i) < 0
        RECURSIVE kept(_)
        kept(i) == IF i > Len(lst) THEN <<>>
                   ELSE IF ignore_tailing_fillers /\ c(i) = 64 THEN kept(i + 1)
                   ELSE <<c(i)>> \o kept(i + 1)
    IN  IF \E i \in DOMAIN lst : raises(i) THEN Raise("ValueError")
        ELSE Ok(kept(1))

\* a bit sequence as 6-bit text: the loop runs until a chunk raises (int() of
\* a malformed chunk, chr() of a negative), until it returns at a '@', or to
\* the end of the list
ascii6(data, ignore_tailing_fillers) ==
    LET lst == split_str(data, 6)
        n(i) == IntBase2(lst[i])
        c(i) == IF n(i).val < 32 THEN n(i).val + 64 ELSE n(i).val
        raises(i) == n(i).exc # "" \/ c(i) < 0
        returns(i) == ~raises(i) /\ ignore_tailing_fillers /\ c(i) = 64
        stops == {i \in DOMAIN lst : raises(i) \/ returns(i)}
        last == IF stops = {} THEN Len(lst) + 1
                ELSE CHOOSE i \in stops : \A j \in stops : i <= j
        string == [i \in 1..(last - 1) |-> c(i)]
    IN  IF last <= Len(lst) /\ raises(last) THEN Raise("ValueError")
        ELSE Ok(string)

\* a variant that reads the bits as an unsigned number
signed_unsigned(bit_vector) ==
    IF \E i \in DOMAIN bit_vector : bit_vector[i] \notin {48, 49}
    THEN Raise("CreationError")
    ELSE IF bit_vector = <<>> THEN Raise("InterpretError")
    ELSE Ok(BitsValue(bit_vector))

\* BitArray(bin=bit_vector).int: two's complement, the first bit is the sign
signed(bit_vector) ==
    IF \E i \in DOMAIN bit_vector : bit_vector[i] \notin {48, 49}
    THEN Raise("CreationError")
    ELSE IF bit_vector = <<>> THEN Raise("InterpretError")
    ELSE Ok(IF bit_vector[1] = 49
            THEN BitsValue(bit_vector) - 2 ^ Len(bit_vector)
            ELSE BitsValue(bit_vector))

\* int(bit_string, 2), and 0 for the empty string
to_int(bit_string) ==
    IF bit_string # <<>> THEN IntBase2(bit_string) ELSE Ok(0)

\* to_int(bit_vector[i]): the index is evaluated first
to_int_at(bit_vector, i) ==
    LET b == Index(bit_vector, i)
    IN  IF b.exc # "" THEN b ELSE to_int(b.val)

RECURSIVE XorRange(_, _, _)
\* m[lo] ^ ... ^ m[hi] (1-based), 0 for an empty range
XorRange(m, lo, hi) ==
    IF lo > hi THEN 0
    ELSE IF lo = hi THEN m[lo]
    ELSE LET mid == (lo + hi) \div 2
         IN  Xor(XorRange(m, lo, mid), XorRange(m, mid + 1, hi))

\* XOR of the characters of msg[1::] up to the first '*' (the loop breaks
\* there), or to the end when there is none
checksum(m) ==
    LET stars == {i \in 2..Len(m) : m[i] = 42}
        stop == IF stars = {} THEN Len(m) + 1
                ELSE CHOOSE i \in stars : \A j \in stars : i <= j
    IN  XorRange(m, 2, stop - 1)

\* x / den, kept exact
Quot(x, den) == [num |-> x, den |-> den]

-----------------------------------------------------------------------------
(* The type decoders.  Each yields [exc, val]; the fields of the dict are   *)
(* evaluated in the order the source writes them.                          *)

\* Python's None
None == [none |-> TRUE]

\* types 1, 2, 3: position report class A
decode_msg_1(bit_vector) ==
    LET status == to_int(Slice(bit_vector, 38, 42))
        maneuver == to_int(Slice(bit_vector, 143, 145))
        type == to_int(Slice(bit_vector, 0, 6))
        repeat == to_int(Slice(bit_vector, 6, 8))
        mmsi == to_int(Slice(bit_vector, 8, 38))
        status_label == Lookup(NAVIGATION_STATUS, status.val)
        turn == signed(Slice(bit_vector, 42, 50))
        speed == to_int(Slice(bit_vector, 50, 60))
        accuracy == to_int_at(bit_vector, 60)
        lon == signed(Slice(bit_vector, 61, 89))
        lat == signed(Slice(bit_vector, 89, 116))
        course == to_int(Slice(bit_vector, 116, 128))
        heading == to_int(Slice(bit_vector, 128, 137))
        second == to_int(Slice(bit_vector, 137, 143))
        maneuver_label == Lookup(MANEUVER_INDICATOR, maneuver.val)
        raim == to_int_at(bit_vector, 148)
        radio == to_int(SliceFrom(bit_vector, 149))
        exc == FirstExc(<<status, maneuver, type, repeat, mmsi, status_label,
                          turn, speed, accuracy, lon, lat, course, heading,
                          second, maneuver_label, raim, radio>>)
    IN  IF exc # "" THEN Raise(exc)
        ELSE Ok([type |-> type.val,
                 repeat |-> repeat.val,
                 mmsi |-> mmsi.val,
                 status |-> <<status.val, status_label.val>>,
                 turn |-> turn.val,
                 speed |-> speed.val,
                 accuracy |-> accuracy.val,
                 lon |-> Quot(lon.val, 600000),
                 lat |-> Quot(lat.val, 600000),
                 course |-> Quot(course.val, 10),
                 heading |-> heading.val,
                 second |-> second.val,
                 maneuver |-> <<maneuver.val, maneuver_label.val>>,
                 raim |-> (raim.val # 0),
                 radio |-> radio.val])

decode_msg_2(bit_vector) == decode_msg_1(bit_vector)

decode_msg_3(bit_vector) == decode_msg_1(bit_vector)

\* type 4: base station report
decode_msg_4(bit_vector) ==
    LET epfd == to_int(Slice(bit_vector, 134, 138))
        type == to_int(Slice(bit_vector, 0, 6))
        repeat == to_int(Slice(bit_vector, 6, 8))
        mmsi == to_int(Slice(bit_vector, 8, 38))
        year == to_int(Slice(bit_vector, 38, 52))
        month == to_int(Slice(bit_vector, 52, 56))
        day == to_int(Slice(bit_vector, 56, 61))
        hour == to_int(Slice(bit_vector, 61, 66))
        minute == to_int(Slice(bit_vector, 66, 72))
        second == to_int(Slice(bit_vector, 72, 78))
        accuracy == to_int_at(bit_vector, 78)
        lon == signed(Slice(bit_vector, 66, 72))
        lat == signed(Slice(bit_vector, 66, 72))
        epfd_label == IF epfd.val \in DOMAIN EPFD_TYPE
                      THEN EPFD_TYPE[epfd.val] ELSE UNDEFINED
        raim == to_int_at(bit_vector, 148)
        radio == to_int(SliceFrom(bit_vector, 148))
        exc == FirstExc(<<epfd, type, repeat, mmsi, year, month, day, hour,
                          minute, second, accuracy, lon, lat, raim, radio>>)
    IN  IF exc # "" THEN Raise(exc)
        ELSE Ok([type |-> type.val,
                 repeat |-> repeat.val,
                 mmsi |-> mmsi.val,
                 year |-> year.val,
                 month |-> month.val,
                 day |-> day.val,
                 hour |-> hour.val,
                 minute |-> minute.val,
                 second |-> second.val,
                 accuracy |-> (accuracy.val # 0),
                 lon |-> Quot(lon.val, 600000),
                 lat |-> Quot(lat.val, 600000),
                 epfd |-> <<epfd.val, epfd_label>>,
                 raim |-> (raim.val # 0),
                 radio |-> radio.val])

\* type 5: static and voyage data
decode_msg_5(bit_vector) ==
    LET epfd == to_int(Slice(bit_vector, 270, 274))
        ship_type == to_int(Slice(bit_vector, 66, 72))
        type == to_int(Slice(bit_vector, 0, 6))
        repeat == to_int(Slice(bit_vector, 6, 8))
        mmsi == to_int(Slice(bit_vector, 8, 38))
        ais_version == to_int(Slice(bit_vector, 38, 40))
        imo == to_int(Slice(bit_vector, 40, 70))
        callsign == ascii6(Slice(bit_vector, 70, 112), TRUE)
        shipname == ascii6(Slice(bit_vector, 112, 232), TRUE)
        ship_type_label == IF ship_type.val \in DOMAIN SHIP_TYPE
                           THEN SHIP_TYPE[ship_type.val] ELSE UNDEFINED
        to_bow == to_int(Slice(bit_vector, 240, 249))
        to_stern == to_int(Slice(bit_vector, 249, 258))
        to_port == to_int(Slice(bit_vector, 258, 264))
        to_starboard == to_int(Slice(bit_vector, 264, 270))
        epfd_label == Lookup(EPFD_TYPE, epfd.val)
        month == to_int(Slice(bit_vector, 274, 278))
        day == to_int(Slice(bit_vector, 278, 283))
        hour == to_int(Slice(bit_vector, 283, 288))
        minute == to_int(Slice(bit_vector, 288, 294))
        draught == to_int(Slice(bit_vector, 294, 302))
        destination == ascii6(SliceFrom(bit_vector, 302), TRUE)
        exc == FirstExc(<<epfd, ship_type, type, repeat, mmsi, ais_version,
                          imo, callsign, shipname, to_bow, to_stern, to_port,
                          to_starboard, epfd_label, month, day, hour, minute,
                          draught, destination>>)
    IN  IF exc # "" THEN Raise(exc)
        ELSE Ok([type |-> type.val,
                 repeat |-> repeat.val,
                 mmsi |-> mmsi.val,
                 ais_version |-> ais_version.val,
                 imo |-> imo.val,
                 callsign |-> callsign.val,
                 shipname |-> shipname.val,
                 shiptype |-> <<ship_type.val, ship_type_label>>,
                 to_bow |-> to_bow.val,
                 to_stern |-> to_stern.val,
                 to_port |-> to_port.val,
                 to_starboard |-> to_starboard.val,
                 epfd |-> <<epfd.val, epfd_label.val>>,
                 month |-> month.val,
                 day |-> day.val,
                 hour |-> hour.val,
                 minute |-> minute.val,
                 draught |-> Quot(draught.val, 10),
                 destination |-> destination.val])

\* types 6..17 and 19..24: def decode_msg_N(bit_vector): pass
decode_msg_stub(bit_vector) == Ok(None)

\* type 18: standard class B position report
decode_msg_18(bit_vector) ==
    LET type == to_int(Slice(bit_vector, 0, 6))
        repeat == to_int(Slice(bit_vector, 6, 8))
        mmsi == to_int(Slice(bit_vector, 8, 38))
        speed == to_int(Slice(bit_vector, 46, 55))
        accuracy == to_int_at(bit_vector, 55)
        lon == signed(Slice(bit_vector, 56, 85))
        lat == signed(Slice(bit_vector, 85, 112))
        course == to_int(Slice(bit_vector, 112, 124))
        heading == to_int(Slice(bit_vector, 124, 133))
        second == to_int(Slice(bit_vector, 133, 139))
        regional == to_int(Slice(bit_vector, 139, 141))
        cs == to_int_at(bit_vector, 141)
        display == to_int_at(bit_vector, 142)
        dsc == to_int_at(bit_vector, 143)
        band == to_int_at(bit_vector, 144)
        msg22 == to_int_at(bit_vector, 145)
        assigned == to_int_at(bit_vector, 146)
        raim == to_int_at(bit_vector, 147)
        radio == to_int(SliceFrom(bit_vector, 148))
        exc == FirstExc(<<type, repeat, mmsi, speed, accuracy, lon, lat,
                          course, heading, second, regional, cs, display, dsc,
                          band, msg22, assigned, raim, radio>>)
    IN  IF exc # "" THEN Raise(exc)
        ELSE Ok([type |-> type.val,
                 repeat |-> repeat.val,
                 mmsi |-> mmsi.val,
                 speed |-> speed.val,
                 accuracy |-> (accuracy.val # 0),
                 lon |-> Quot(lon.val, 600000),
                 lat |-> Quot(lat.val, 600000),
                 course |-> Quot(course.val, 10),
                 heading |-> heading.val,
                 second |-> second.val,
                 regional |-> regional.val,
                 cs |-> (cs.val # 0),
                 display |-> (display.val # 0),
                 dsc |-> (dsc.val # 0),
                 band |-> (band.val # 0),
                 msg22 |-> (msg22.val # 0),
                 assigned |-> (assigned.val # 0),
                 raim |-> (raim.val # 0),
                 radio |-> radio.val])

\* a variant of the table without its leading None: every decoder sits one
\* place early and index 24 is past the end
DECODE_MSG_shifted(msg_type, bit_vector) ==
    CASE msg_type \in {0, 1, 2} -> decode_msg_1(bit_vector)
      [] msg_type = 3 -> decode_msg_4(bit_vector)
      [] msg_type = 4 -> decode_msg_5(bit_vector)
      [] msg_type = 17 -> decode_msg_18(bit_vector)
      [] msg_type = 24 -> Raise("IndexError")
      [] OTHER -> decode_msg_stub(bit_vector)

\* DECODE_MSG[msg_type](decoded_data), for 0 < msg_type < 25
DECODE_MSG(msg_type, bit_vector) ==
    CASE msg_type = 1 -> decode_msg_1(bit_vector)
      [] msg_type = 2 -> decode_msg_2(bit_vector)
      [] msg_type = 3 -> decode_msg_3(bit_vector)
      [] msg_type = 4 -> decode_msg_4(bit_vector)
      [] msg_type = 5 -> decode_msg_5(bit_vector)
      [] msg_type = 18 -> decode_msg_18(bit_vector)
      [] OTHER -> decode_msg_stub(bit_vector)

-----------------------------------------------------------------------------
(* decode *)

\* what a call does: the value it returns, the text it prints, or the
\* exception it raises
Return(v, text) == [ret |-> v, printed |-> text, exc |-> ""]

Throw(e) == [ret |-> None, printed |-> "", exc |-> e]

InvalidChecksumText == "Invalid Checksum dropping packet!"

SentencingText == "Sentencing is not supported yet!"

ONE == <<49>>

\* a variant of the check with "and" for "or"
fragmented_and(n_sentences, sentence_num) ==
    n_sentences # ONE /\ sentence_num # ONE

\* n_sentences != '1' or sentence_num != '1'
fragmented(n_sentences, sentence_num) ==
    n_sentences # ONE \/ sentence_num # ONE

decode(m) ==
    LET parts == Split(m)
    IN  IF Len(parts) # 7 THEN Throw("ValueError")    \* unpacking
        ELSE
        LET n_sentences == parts[2]
            sentence_num == parts[3]
            data == parts[6]
            chcksum == parts[7]
            bits == decode_ascii6(data)
            msg_type == IntBase2(Slice(bits, 0, 6))
            declared == IntHex(SliceFrom(chcksum, 2))
        IN  IF msg_type.exc # "" THEN Throw(msg_type.exc)
            ELSE IF declared.exc # "" THEN Throw(declared.exc)
            ELSE IF checksum(m) # declared.val
                 THEN Return(None, InvalidChecksumText)
            ELSE IF fragmented(n_sentences, sentence_num)
                 THEN Return(None, SentencingText)
            ELSE IF 0 < msg_type.val /\ msg_type.val < 25
                 THEN LET r == DECODE_MSG(msg_type.val, bits)
                      IN  IF r.exc # "" THEN Throw(r.exc)
                          ELSE Return(r.val, "")
            ELSE Return(None, "")

\* decode's local decoded_data (unbound when the unpacking raises)
DecodedData(m) ==
    LET parts == Split(m)
    IN  IF Len(parts) # 7 THEN <<>> ELSE decode_ascii6(parts[6])

-----------------------------------------------------------------------------
(* Input lines *)

\* the 6-bit armor alphabet, and some characters outside it: / X Y _ x
Alphabet == (48..87) \cup (96..119)

OutChars == {47, 88, 89, 95, 120}

Chars == Alphabet \cup OutChars

\* the payloads of MESSAGES in main()
\* "15M67FC000G?ufbE`FepT@3n00Sa"
Payload1 == <<49, 53, 77, 54, 55, 70, 67, 48, 48, 48, 71, 63, 117, 102, 98, 69, 96, 70, 101, 112, 84, 64, 51, 110, 48, 48, 83, 97>>

\* "15NG6V0P01G?cFhE`R2IU?wn28R>"
Payload2 == <<49, 53, 78, 71, 54, 86, 48, 80, 48, 49, 71, 63, 99, 70, 104, 69, 96, 82, 50, 73, 85, 63, 119, 110, 50, 56, 82, 62>>

\* "15NJQiPOl=G?m:bE`Gpt<aun00S8"
Payload3 == <<49, 53, 78, 74, 81, 105, 80, 79, 108, 61, 71, 63, 109, 58, 98, 69, 96, 71, 112, 116, 60, 97, 117, 110, 48, 48, 83, 56>>

\* "15NPOOPP00o?bIjE`UEv4?wF2HIU"
Payload4 == <<49, 53, 78, 80, 79, 79, 80, 80, 48, 48, 111, 63, 98, 73, 106, 69, 96, 85, 69, 118, 52, 63, 119, 70, 50, 72, 73, 85>>

\* "35NVm2gP00o@5k:EbbPJnwwN25e3"
Payload5 == <<51, 53, 78, 86, 109, 50, 103, 80, 48, 48, 111, 64, 53, 107, 58, 69, 98, 98, 80, 74, 110, 119, 119, 78, 50, 53, 101, 51>>

\* "B52KlJP00=l4be5ItJ6r3wVUWP06"
Payload6 == <<66, 53, 50, 75, 108, 74, 80, 48, 48, 61, 108, 52, 98, 101, 53, 73, 116, 74, 54, 114, 51, 119, 86, 85, 87, 80, 48, 54>>

Subst(p, pos, ch) == [p EXCEPT ![pos] = ch]

Prefix(p, n) == SubSeq(p, 1, n)

\* Payload1 with bit 143 set ('o' at character 24)
Payload1m == Subst(Payload1, 24, 111)

\* Payload1 retyped as a base station report ('4')
PayloadBase4 == Subst(Payload1, 1, 52)

\* a type-5 payload of 71 characters (424 bits and 2 of padding)
\* "55?MbV02;H;s<HtKR20EHE:0@T4@Dn2222222216L961O5Gf0NSQEp6ClRp888888888880"
PayloadLong5 == <<53, 53, 63, 77, 98, 86, 48, 50, 59, 72, 59, 115, 60, 72, 116, 75, 82, 50, 48, 69, 72, 69, 58, 48, 64, 84, 52, 64, 68, 110, 50, 50, 50, 50, 50, 50, 50, 50, 50, 49, 54, 76, 57, 54, 49, 79, 53, 71, 102, 48, 78, 83, 81, 69, 112, 54, 67, 108, 82, 112, 56, 56, 56, 56, 56, 56, 56, 56, 56, 56, 48>>

\* payloads that differ from a base in one character: the characters that
\* hold the type code, status, the leading bits of lon and lat, maneuver and
\* raim (types 1..3), epfd (types 4 and 5), shiptype (type 5)
VariedPayloads ==
    {Subst(Payload1, p, c) : p \in {1, 7, 11, 16, 25}, c \in Chars}
        \cup {Subst(Payload1m, 25, c) : c \in Chars}
        \cup {Subst(PayloadBase4, 23, c) : c \in Chars}
        \cup {Subst(PayloadLong5, p, c) : p \in {12, 46}, c \in Chars}
        \cup {Subst(Payload6, 10, c) : c \in Chars}

\* payloads cut short
ShortPayloads ==
    UNION {{Prefix(b, n) : n \in 0..Len(b)} :
              b \in {Payload1, PayloadBase4, PayloadLong5, Payload6}}

Payloads ==
    VariedPayloads \cup ShortPayloads
        \cup {Payload2, Payload3, Payload4, Payload5}

Tag == <<33, 65, 73, 86, 68, 77>>     \* "!AIVDM"

HexChar(n) == IF n < 10 THEN 48 + n ELSE 55 + n

Hex2(n) == <<HexChar(n \div 16), HexChar(n % 16)>>

\* "!AIVDM,<ns>,<sn>,,B,<payload>,0*"
Body(ns, sn, payload) ==
    Tag \o <<44>> \o ns \o <<44>> \o sn \o <<44, 44, 66, 44>> \o payload
        \o <<44, 48, 42>>

ChecksumModes == {"good", "tampered_low", "tampered_high", "no_digits"}

MkLine(ns, sn, payload, mode) ==
    LET b == Body(ns, sn, payload)
        c == checksum(b)
    IN  b \o (CASE mode = "good" -> Hex2(c)
                [] mode = "tampered_low" -> Hex2(Xor(c, 1))
                [] mode = "tampered_high" -> Hex2(Xor(c, 16))
                [] OTHER -> <<>>)

\* single-fragment lines with the checksum the payload calls for
GoodLines == {MkLine(ONE, ONE, p, "good") : p \in Payloads}

\* lines that vary the fragment fields and the checksum over a few payloads
GatePayloads ==
    {Payload1, Payload6, <<>>, Subst(Payload1, 1, 56), Subst(Payload1, 7, 88),
     Prefix(PayloadLong5, 1)}

GateLines ==
    {MkLine(ns, sn, p, mode) :
        ns \in {ONE, <<50>>}, sn \in {ONE, <<50>>, <<>>},
        p \in GatePayloads, mode \in ChecksumModes}

\* lines that do not split into 7 fields
MalformedLines ==
    {<<>>,
     Tag \o <<44, 49, 44, 49, 44, 44, 66, 44>> \o Payload1,
     Body(ONE, ONE, Subst(Payload1, 5, 44))}

Lines == GoodLines \cup GateLines \cup MalformedLines

-----------------------------------------------------------------------------
(* The driver: main() hands each line of the stream to decode *)

NoOutcome == Return(None, "")

TablesInit ==
    /\ NAVIGATION_STATUS = NavigationStatusInit
    /\ MANEUVER_INDICATOR = ManeuverIndicatorInit
    /\ EPFD_TYPE = EpfdTypeInit
    /\ SHIP_TYPE = ShipTypeInit

Init ==
    /\ pc = "recv"
    /\ msg \in Lines
    /\ outcome = NoOutcome
    /\ decoded_data = <<>>
    /\ TablesInit
    /\ calls = <<>>
    /\ text_data = <<>>
    /\ text_flag = TRUE
    /\ text_result = Ok(<<>>)

\* for msg in ais_stream(): the next line arrives
Recv(line) ==
    /\ pc = "decoded"
    /\ pc' = "recv"
    /\ msg' = line
    /\ outcome' = NoOutcome
    /\ decoded_data' = <<>>
    /\ UNCHANGED <<tables, calls, text_data, text_flag, text_result>>

\* decode(msg)
DecodeCall ==
    /\ pc = "recv"
    /\ pc' = "decoded"
    /\ outcome' = decode(msg)
    /\ decoded_data' = DecodedData(msg)
    /\ UNCHANGED <<msg, tables, calls, text_data, text_flag, text_result>>

Next == DecodeCall \/ \E line \in Lines : Recv(line)

Spec == Init /\ [][Next]_vars

-----------------------------------------------------------------------------
(* A bounded sequence of decode calls *)

MaxCalls == 3

SeqLines ==
    {MkLine(ONE, ONE, Payload1, "good"),
     MkLine(ONE, ONE, Payload1, "tampered_low"),
     MkLine(<<50>>, ONE, Payload1, "good"),
     MkLine(ONE, ONE, Subst(Payload1, 1, 56), "good"),        \* type 8
     MkLine(ONE, ONE, Subst(Payload1, 1, 48), "good"),        \* type 0
     MkLine(ONE, ONE, Subst(PayloadBase4, 23, 57), "good"),   \* type 4, epfd 9
     MkLine(ONE, ONE, Subst(PayloadLong5, 46, 84), "good"),   \* type 5, epfd 9
     MkLine(ONE, ONE, Subst(Payload1m, 25, 80), "good"),      \* maneuver 3
     MkLine(ONE, ONE, <<>>, "good"),
     <<>>}

InitSeq ==
    /\ pc = "recv"
    /\ msg = <<>>
    /\ outcome = NoOutcome
    /\ decoded_data = <<>>
    /\ TablesInit
    /\ calls = <<>>
    /\ text_data = <<>>
    /\ text_flag = TRUE
    /\ text_result = Ok(<<>>)

\* a variant of the call that enters an unknown epfd code into EPFD_TYPE
\* (dict.setdefault in place of the guarded read of decode_msg_4)
SeqCall_setdefault(line) ==
    /\ Len(calls) < MaxCalls
    /\ msg' = line
    /\ pc' = "decoded"
    /\ outcome' = decode(msg')
    /\ decoded_data' = DecodedData(msg')
    /\ calls' = Append(calls, [line |-> msg', outcome |-> outcome'])
    /\ EPFD_TYPE' =
          LET epfd == to_int(Slice(decoded_data', 134, 138))
          IN  IF /\ outcome'.exc = ""
                 /\ outcome'.ret # None
                 /\ outcome'.ret.type = 4
                 /\ epfd.val \notin DOMAIN EPFD_TYPE
              THEN (epfd.val :> UNDEFINED) @@ EPFD_TYPE
              ELSE EPFD_TYPE
    /\ UNCHANGED <<NAVIGATION_STATUS, MANEUVER_INDICATOR, SHIP_TYPE,
                   text_data, text_flag, text_result>>

\* one turn of the loop of main(): a line arrives and is decoded
SeqCall(line) ==
    /\ Len(calls) < MaxCalls
    /\ msg' = line
    /\ pc' = "decoded"
    /\ outcome' = decode(msg')
    /\ decoded_data' = DecodedData(msg')
    /\ calls' = Append(calls, [line |-> msg', outcome |-> outcome'])
    /\ UNCHANGED <<tables, text_data, text_flag, text_result>>

NextSeq == \E line \in SeqLines : SeqCall(line)

SpecSeq == InitSeq /\ [][NextSeq]_vars

-----------------------------------------------------------------------------
(* ascii6 on its own *)

MaxChunks == 3

\* 6-bit groups for '@', 'A', '_', ' ', '?'
ChunkVals == {0, 1, 31, 32, 63}

\* what is left when the range is no multiple of 6 bits: nothing, "0", "11"
Tails == {<<>>, <<48>>, <<49, 49>>}

RECURSIVE Concat(_)
Concat(ss) == IF ss = <<>> THEN <<>> ELSE Head(ss) \o Concat(Tail(ss))

TextInputs ==
    {Concat([i \in DOMAIN cs |-> ZeroPad(Bin(cs[i]), 6)]) \o t :
        cs \in UNION {[1..n -> ChunkVals] : n \in 0..MaxChunks}, t \in Tails}

InitText ==
    /\ pc = "recv"
    /\ text_data \in TextInputs
    /\ text_flag \in BOOLEAN
    /\ text_result = Ok(<<>>)
    /\ msg = <<>>
    /\ outcome = NoOutcome
    /\ decoded_data = <<>>
    /\ TablesInit
    /\ calls = <<>>

\* ascii6(data, ignore_tailing_fillers)
Ascii6Call ==
    /\ pc = "recv"
    /\ pc' = "decoded"
    /\ text_result' = ascii6(text_data, text_flag)
    /\ UNCHANGED <<msg, outcome, decoded_data, tables, calls, text_data,
                   text_flag>>

NextText == Ascii6Call

SpecText == InitText /\ [][NextText]_vars

-----------------------------------------------------------------------------
(* Vocabulary of the properties *)

\* the outcomes of a call
IsRecord(o) == o.exc = "" /\ o.ret # None

ChecksumMismatch == Return(None, InvalidChecksumText)

UnsupportedFragmentation == Return(None, SentencingText)

\* what decode gives for a type code of 0 or above 24: it falls through to
\* the final return None
UnknownMessageType == Return(None, "")

SevenFields(m) == Len(Split(m)) = 7

PayloadOf(m) == Split(m)[6]

\* the trailing field has the form <c>*<2 hex digits>
ChecksumFieldOK(m) ==
    LET f == Split(m)[7]
    IN  /\ Len(f) = 4
        /\ f[2] = 42
        /\ HexDigit(f[3]) >= 0
        /\ HexDigit(f[4]) >= 0

DeclaredChecksum(m) ==
    LET f == Split(m)[7] IN 16 * HexDigit(f[3]) + HexDigit(f[4])

\* the XOR of the characters between '!' and '*'
ComputedChecksum(m) ==
    LET star == CHOOSE i \in DOMAIN m : m[i] = 42 /\ \A j \in 1..(i - 1) : m[j] # 42
    IN  XorRange(m, 2, star - 1)

FragmentFieldsNotOne(m) == Split(m)[2] # <<49>> \/ Split(m)[3] # <<49>>

InAlphabet(p) == \A i \in DOMAIN p : p[i] \in Alphabet

\* the sentence gets past the checksum and the fragmentation checks
PassesGates(m) ==
    /\ SevenFields(m)
    /\ ChecksumFieldOK(m)
    /\ PayloadOf(m) # <<>>
    /\ ComputedChecksum(m) = DeclaredChecksum(m)
    /\ ~FragmentFieldsNotOne(m)

\* the armor table of the AIS standard, and a value as 6 bits, most
\* significant first
ArmorTable(ch) == IF ch <= 87 THEN ch - 48 ELSE ch - 56

SixBits(v) == [k \in 1..6 |-> 48 + ((v \div 2 ^ (6 - k)) % 2)]

\* the 6-bit type code of the payload
TypeCode(m) == ArmorTable(PayloadOf(m)[1])

StubTypes == (6..17) \cup (19..24)

\* the bits the layout of a message type takes
LayoutBits(t) == IF t = 5 THEN 422 ELSE 168

LabelOr(table, code, fallback) ==
    IF code \in DOMAIN table THEN table[code] ELSE fallback

Field(a, b) == BitsValue(Slice(decoded_data, a, b))

-----------------------------------------------------------------------------
(* Properties *)

\* C1: a well-formed sentence whose declared checksum differs from the XOR of
\* its characters is answered with the checksum failure, whatever its payload
C1_ChecksumGate ==
    (/\ pc = "decoded"
     /\ SevenFields(msg)
     /\ ChecksumFieldOK(msg)
     /\ ComputedChecksum(msg) # DeclaredChecksum(msg))
        => outcome = ChecksumMismatch

C4_EnumFallback ==
    (/\ pc = "decoded"
     /\ PassesGates(msg)
     /\ InAlphabet(PayloadOf(msg))
     /\ TypeCode(msg) \in 1..5
     /\ Len(decoded_data) >= LayoutBits(TypeCode(msg)))
        => /\ IsRecord(outcome)
           /\ TypeCode(msg) \in 1..3 =>
                /\ outcome.ret.status =
                     <<Field(38, 42),
                       LabelOr(NavigationStatusInit, Field(38, 42), UNDEFINED)>>
                /\ outcome.ret.maneuver =
                     <<Field(143, 145),
                       LabelOr(ManeuverIndicatorInit, Field(143, 145), UNDEFINED)>>
           /\ TypeCode(msg) = 4 =>
                outcome.ret.epfd =
                    <<Field(134, 138),
                      LabelOr(EpfdTypeInit, Field(134, 138), UNDEFINED)>>
           /\ TypeCode(msg) = 5 =>
                /\ outcome.ret.epfd =
                     <<Field(270, 274),
                       LabelOr(EpfdTypeInit, Field(270, 274), UNDEFINED)>>
                /\ outcome.ret.shiptype =
                     <<Field(66, 72),
                       LabelOr(ShipTypeInit, Field(66, 72), UNDEFINED)>>

\* C5: a record is only returned for a payload that holds all the bits of the
\* layout of its message type
C5_AllOrNothing ==
    (pc = "decoded" /\ IsRecord(outcome))
        => Len(decoded_data) >= LayoutBits(outcome.ret.type)

\* C6: on the armor alphabet the decoder is one-to-one and onto the 64 6-bit
\* groups, and the bit vector of a payload is the 6-bit group of each of its
\* characters, most significant bit first, in input order
C6_ArmorBijection ==
    /\ \A a, b \in Alphabet :
           a # b => decode_ascii6(<<a>>) # decode_ascii6(<<b>>)
    /\ {decode_ascii6(<<a>>) : a \in Alphabet} = {SixBits(v) : v \in 0..63}
    /\ (pc = "decoded" /\ SevenFields(msg) /\ InAlphabet(PayloadOf(msg)))
          => /\ Len(decoded_data) = 6 * Len(PayloadOf(msg))
             /\ \A i \in DOMAIN PayloadOf(msg) :
                    Slice(decoded_data, 6 * (i - 1), 6 * i)
                        = SixBits(ArmorTable(PayloadOf(msg)[i]))

C6_Witness ==
    /\ pc = "decoded"
    /\ SevenFields(msg)
    /\ InAlphabet(PayloadOf(msg))
    /\ Len(PayloadOf(msg)) >= 2
    /\ \E i \in DOMAIN PayloadOf(msg) : PayloadOf(msg)[i] >= 96
    /\ \E i \in DOMAIN PayloadOf(msg) : PayloadOf(msg)[i] <= 87
    /\ Len(decoded_data) = 6 * Len(PayloadOf(msg))

\* C7: a payload with a character outside the armor alphabet is answered with
\* a failure and never with a record (decode has no failure of its own for
\* such a character, so the formula asks only that no record comes back)
C7_InvalidArmorCharacter ==
    (/\ pc = "decoded"
     /\ SevenFields(msg)
     /\ ~InAlphabet(PayloadOf(msg)))
        => ~IsRecord(outcome)

\* C8: with filler stripping ascii6 returns the characters of the chunks before
\* the first chunk that decodes to '@', and without it one character for each
\* chunk of the range
C8_FillerStripping ==
    pc = "decoded" =>
        LET n == (Len(text_data) + 5) \div 6
            chunk(i) == SubSeq(text_data, 6 * (i - 1) + 1,
                               Min(6 * i, Len(text_data)))
            code(i) == IF BitsValue(chunk(i)) < 32
                       THEN BitsValue(chunk(i)) + 64
                       ELSE BitsValue(chunk(i))
            fillers == {i \in 1..n : code(i) = 64}
            first == IF fillers = {} THEN n + 1
                     ELSE CHOOSE i \in fillers : \A j \in fillers : i <= j
        IN  /\ text_result.exc = ""
            /\ text_flag =>
                 /\ text_result.val = [i \in 1..(first - 1) |-> code(i)]
                 /\ \A i \in DOMAIN text_result.val : text_result.val[i] # 64
            /\ ~text_flag => text_result.val = [i \in 1..n |-> code(i)]

C8_Witness ==
    /\ pc = "decoded"
    /\ text_flag
    /\ Len(text_data) = 18
    /\ Slice(text_data, 0, 6) # SixBits(0)
    /\ Slice(text_data, 6, 12) = SixBits(0)
    /\ Slice(text_data, 12, 18) # SixBits(0)
    /\ Len(text_result.val) = 1

\* C9 as stated: the position of a type 1, 2 or 3 record lies within
\* [-180, 180] by [-90, 90] degrees
C9_PositionInRange ==
    (pc = "decoded" /\ IsRecord(outcome) /\ outcome.ret.type \in 1..3)
        => /\ outcome.ret.lon.den = 600000
           /\ outcome.ret.lat.den = 600000
           /\ outcome.ret.lon.num \in -108000000..108000000
           /\ outcome.ret.lat.num \in -54000000..54000000

\* C9 as amended: the position of a type 1, 2 or 3 record is the two's
\* complement value of bits [61:89] and of bits [89:116] over 600000: any
\* 28-bit and any 27-bit value, so lon in [-2^27, 2^27 - 1] / 600000 and lat
\* in [-2^26, 2^26 - 1] / 600000
C9_PositionIsRawField ==
    (pc = "decoded" /\ IsRecord(outcome) /\ outcome.ret.type \in 1..3)
        => /\ outcome.ret.lon.den = 600000
           /\ outcome.ret.lat.den = 600000
           /\ outcome.ret.lon.num \in -(2 ^ 27)..(2 ^ 27 - 1)
           /\ outcome.ret.lat.num \in -(2 ^ 26)..(2 ^ 26 - 1)
           /\ InAlphabet(PayloadOf(msg)) =>
                /\ (outcome.ret.lon.num - Field(61, 89)) % (2 ^ 28) = 0
                /\ (outcome.ret.lat.num - Field(89, 116)) % (2 ^ 27) = 0

C9_Witness ==
    /\ pc = "decoded"
    /\ IsRecord(outcome)
    /\ outcome.ret.type \in 1..3
    /\ InAlphabet(PayloadOf(msg))
    /\ outcome.ret.lon.num > 108000000

\* C10: in a sequence of calls the outcome of a call depends on its line only:
\* the same line has the same outcome each time, and no call changes a code
\* table
C10_CallsIndependent ==
    /\ \A i, j \in DOMAIN calls :
           calls[i].line = calls[j].line => calls[i].outcome = calls[j].outcome
    /\ \A i \in DOMAIN calls : calls[i].outcome = decode(calls[i].line)
    /\ TablesInit

C10_Witness ==
    /\ Len(calls) = MaxCalls
    /\ calls[1].line = calls[3].line
    /\ calls[1].line # calls[2].line
    /\ calls[1].outcome.exc = "KeyError"
    /\ IsRecord(calls[2].outcome)

====
